---- MODULE Spec2Model ----
(***************************************************************************)
(* Model of the bracket-tree part of obsidian-ling-gloss: the tokenizer    *)
(* and recursive-descent parser (tree/parse.ts), the layout engine         *)
(* (tree/layout.ts), the movement arcs (tree/render.ts) and the two host   *)
(* entry points of main.ts (the `tree` code block and the inline           *)
(* {{tree: ...}} post-processor).                                          *)
(*                                                                         *)
(* A JavaScript string is a sequence of one-character strings.  The token  *)
(* cursor p is the code's 0-based p: toks[p] of the code is toks[p + 1]    *)
(* here.  An optional string (id?: string) is <<>> when undefined and      *)
(* <<s>> when it is the string s.                                          *)
(***************************************************************************)
EXTENDS Integers, Sequences, FiniteSets, TLC

VARIABLES
  mode,       \* which entry point runs: "block", "inline", or "render" alone
  text,       \* the content of the `tree` code block
  typed,      \* how many fragments the author has written
  dom,        \* the children of the element the processor works on
  toReplace,  \* the inline processor's list of {node, match}
  ri,         \* the inline processor's position in toReplace (1-based)
  raised,     \* the exception that left the processor, <<>> when none
  src,        \* parseTree's argument
  toks,       \* parseTree's tokens
  p,          \* parseTree's cursor
  stack,      \* the parseNode calls that are in their body loop, innermost first
  res,        \* what parseTree returned or threw
  pos,        \* renderTree's positioned tree
  arcs,       \* the movement paths drawMovement appended
  pc          \* where the processor is

hostVars == <<mode, text, typed, dom, toReplace, ri, raised>>
parseVars == <<src, toks, p, stack, res>>
renderVars == <<pos, arcs>>
vars == <<hostVars, parseVars, renderVars, pc>>

(***************************************************************************)
(* Bounds of the model.                                                    *)
(***************************************************************************)
MaxPieces == 5
MaxLayoutNodes == 4
MaxMoveNodes == 3
MaxDocPieces == 4

(***************************************************************************)
(* Strings.                                                                *)
(***************************************************************************)
LBR == "["
RBR == "]"
QUOTE == "\""
HASH == "#"
PLUS == "+"
MINUS == "-"
SPACE == " "

\* /\s/.test(c)
IsSpace(c) == c = SPACE

\* s.indexOf(c), 1-based; 0 when c does not occur (the code's -1)
RECURSIVE IndexFrom(_, _, _)
IndexFrom(s, c, i) ==
  IF i > Len(s) THEN 0
  ELSE IF s[i] = c THEN i
  ELSE IndexFrom(s, c, i + 1)

IndexOfChar(s, c) == IndexFrom(s, c, 1)

(***************************************************************************)
(* Values of parse.ts.                                                     *)
(***************************************************************************)
NoId == <<>>
SomeId(s) == <<s>>

Tok(k, v) == [kind |-> k, value |-> v]

Feature(s, n) == [sign |-> s, name |-> n]

Node(l, fs, i, cs) == [label |-> l, features |-> fs, id |-> i, children |-> cs]

NullNode == Node(<<>>, <<>>, NoId, <<>>)

Ok(n) == [kind |-> "ok", node |-> n, msg |-> <<>>]
Err(m) == [kind |-> "err", node |-> NullNode, msg |-> m]
NoRes == [kind |-> "none", node |-> NullNode, msg |-> <<>>]

UnclosedQuote == <<"Unclosed quote">>
UnexpectedEndOfInput == <<"Unexpected end of input">>
UnexpectedEnd == <<"Unexpected end">>
UnclosedBracket == <<"Unclosed '['">>
BadToken == <<"Bad token">>
ExtraInput == <<"Extra input after tree">>
Expected(kind, got) == <<"Expected", kind, "got", got>>

(***************************************************************************)
(* tokenize                                                                *)
(***************************************************************************)
\* while (j < src.length && src[j] !== '"') j++ : the index of the closing
\* quote, Len(s) + 1 when there is none
RECURSIVE ScanQuote(_, _)
ScanQuote(s, j) ==
  IF j <= Len(s) /\ s[j] # QUOTE THEN ScanQuote(s, j + 1) ELSE j

\* while (j < src.length && !/\s|\[|\]/.test(src[j])) j++
RECURSIVE ScanSym(_, _)
ScanSym(s, j) ==
  IF j <= Len(s) /\ ~(IsSpace(s[j]) \/ s[j] = LBR \/ s[j] = RBR)
  THEN ScanSym(s, j + 1) ELSE j

RECURSIVE TokLoop(_, _, _)
TokLoop(s, i, acc) ==
  IF i > Len(s) THEN [ok |-> TRUE, toks |-> acc]
  ELSE IF IsSpace(s[i]) THEN TokLoop(s, i + 1, acc)
  ELSE IF s[i] = LBR THEN TokLoop(s, i + 1, Append(acc, Tok("lbr", <<s[i]>>)))
  ELSE IF s[i] = RBR THEN TokLoop(s, i + 1, Append(acc, Tok("rbr", <<s[i]>>)))
  ELSE IF s[i] = QUOTE THEN
    LET j == ScanQuote(s, i + 1) IN
    IF j > Len(s) THEN [ok |-> FALSE, toks |-> <<>>]
    ELSE TokLoop(s, j + 1, Append(acc, Tok("sym", SubSeq(s, i + 1, j - 1))))
  ELSE
    LET j == ScanSym(s, i) IN
    TokLoop(s, j, Append(acc, Tok("sym", SubSeq(s, i, j - 1))))

tokenize(s) == TokLoop(s, 1, <<>>)

(***************************************************************************)
(* parseTree: peek, parseFeaturesPart and the pieces of parseNode          *)
(***************************************************************************)
HasTok(ts, q) == q < Len(ts)
TokAt(ts, q) == ts[q + 1]

parseFeaturesPart(sym) ==
  LET hash == IndexOfChar(sym, HASH) IN
  IF hash >= 1
  THEN [base |-> SubSeq(sym, 1, hash - 1),
        id |-> SomeId(SubSeq(sym, hash + 1, Len(sym)))]
  ELSE [base |-> sym, id |-> NoId]

\* /^[+-]/.test(v)
StartsWithSign(v) == Len(v) >= 1 /\ (v[1] = PLUS \/ v[1] = MINUS)

\* maybe?.kind === "sym" && /^[+-]/.test(maybe.value), maybe = toks[q]
IsFeatureStart(ts, q) ==
  HasTok(ts, q) /\ TokAt(ts, q).kind = "sym" /\ StartsWithSign(TokAt(ts, q).value)

\* {sign, name} of a feature token
FeatureOf(v) ==
  Feature(IF v[1] = PLUS THEN PLUS ELSE MINUS, SubSeq(v, 2, Len(v)))

\* leaf.value.replace(/^"|"$/g, "")
StripQuotes(v) ==
  LET a == IF Len(v) >= 1 /\ v[1] = QUOTE THEN Tail(v) ELSE v
  IN IF Len(a) >= 1 /\ a[Len(a)] = QUOTE THEN SubSeq(a, 1, Len(a) - 1) ELSE a

\* the childless node of a bare symbol in a body: no id key at all
LeafNode(v) == Node(StripQuotes(v), <<>>, NoId, <<>>)

\* the frame of a parseNode call that is in its body loop
Frame(head) ==
  [label |-> head.base, id |-> head.id, features |-> <<>>, children |-> <<>>,
   save |-> 0]

FrameNode(f) == Node(f.label, f.features, f.id, f.children)

\* a parseTree that returns the node whatever follows it
RootResultNoCheck(node, q, ts) == Ok(node)

\* const root = parseNode(); if (p !== toks.length) throw ...; return root
RootResult(node, q, ts) ==
  IF q # Len(ts) THEN Err(ExtraInput) ELSE Ok(node)

\* a body loop that leaves the end of the tokens to eat
EndOfBodyAsEndOfInput == UnexpectedEndOfInput

\* the error of the body loop when no token is left
EndOfBodyError == UnclosedBracket

\* an exception leaves every parseNode call and parseTree
Throw(m, q) ==
  /\ res' = Err(m)
  /\ p' = q
  /\ stack' = <<>>
  /\ pc' = "ret"
  /\ UNCHANGED <<src, toks, hostVars, renderVars>>

\* parseNode returns node with the cursor at q: to its caller's
\* children.push, or to parseTree
Return(node, q, stk) ==
  IF stk = <<>>
  THEN /\ res' = RootResult(node, q, toks)
       /\ p' = q
       /\ stack' = <<>>
       /\ pc' = "ret"
       /\ UNCHANGED <<src, toks, hostVars, renderVars>>
  ELSE /\ stack' = <<[Head(stk) EXCEPT !.children = Append(@, node)]>> \o Tail(stk)
       /\ p' = q
       /\ pc' = "body"
       /\ UNCHANGED <<src, toks, res, hostVars, renderVars>>

\* parseTree(s) up to its call of parseNode: const toks = tokenize(src); let p = 0
CallParseTree(s) ==
  LET t == tokenize(s) IN
  /\ src' = s
  /\ p' = 0
  /\ stack' = <<>>
  /\ IF t.ok
     THEN /\ toks' = t.toks
          /\ res' = NoRes
          /\ pc' = "parseNode"
     ELSE /\ toks' = <<>>
          /\ res' = Err(UnclosedQuote)
          /\ pc' = "ret"

\* parseNode up to its body loop, or the whole of it for a symbol
ParseNodeEnter ==
  /\ pc = "parseNode"
  /\ IF ~HasTok(toks, p) THEN Throw(UnexpectedEnd, p)
     ELSE IF TokAt(toks, p).kind = "lbr" THEN
       \* eat("lbr"); const labelTok = eat("sym");
       IF ~HasTok(toks, p + 1) THEN Throw(UnexpectedEndOfInput, p + 2)
       ELSE IF TokAt(toks, p + 1).kind # "sym"
         THEN Throw(Expected("sym", TokAt(toks, p + 1).kind), p + 2)
       ELSE /\ stack' = <<Frame(parseFeaturesPart(TokAt(toks, p + 1).value))>> \o stack
            /\ p' = p + 2
            /\ pc' = "body"
            /\ UNCHANGED <<src, toks, res, hostVars, renderVars>>
     ELSE IF TokAt(toks, p).kind = "sym" THEN
       LET head == parseFeaturesPart(TokAt(toks, p).value) IN
       Return(Node(head.base, <<>>, head.id, <<>>), p + 1, stack)
     ELSE Throw(BadToken, p)

\* if (!t2) throw new Error("Unclosed '['")
BodyEnd ==
  /\ pc = "body"
  /\ ~HasTok(toks, p)
  /\ Throw(EndOfBodyError, p)

\* a feature group after which the cursor is put back at save
BodyFeatureRewound ==
  /\ pc = "body"
  /\ HasTok(toks, p) /\ TokAt(toks, p).kind = "lbr"
  /\ IsFeatureStart(toks, p + 1)
  /\ IF ~HasTok(toks, p + 2) THEN Throw(UnexpectedEndOfInput, p + 3)
     ELSE IF TokAt(toks, p + 2).kind # "rbr"
       THEN Throw(Expected("rbr", TokAt(toks, p + 2).kind), p + 3)
     ELSE /\ stack' = <<[Head(stack) EXCEPT
                          !.features = Append(@, FeatureOf(TokAt(toks, p + 1).value)),
                          !.save = p]>> \o Tail(stack)
          /\ p' = p
          /\ UNCHANGED <<src, toks, res, pc, hostVars, renderVars>>

\* '[' then a +/- symbol: features.push({sign, name}); eat("rbr")
BodyFeature ==
  /\ pc = "body"
  /\ HasTok(toks, p) /\ TokAt(toks, p).kind = "lbr"
  /\ IsFeatureStart(toks, p + 1)
  /\ IF ~HasTok(toks, p + 2) THEN Throw(UnexpectedEndOfInput, p + 3)
     ELSE IF TokAt(toks, p + 2).kind # "rbr"
       THEN Throw(Expected("rbr", TokAt(toks, p + 2).kind), p + 3)
     ELSE /\ stack' = <<[Head(stack) EXCEPT
                          !.features = Append(@, FeatureOf(TokAt(toks, p + 1).value)),
                          !.save = p]>> \o Tail(stack)
          /\ p' = p + 3
          /\ UNCHANGED <<src, toks, res, pc, hostVars, renderVars>>

\* '[' then anything else: p = save; children.push(parseNode())
BodyChild ==
  /\ pc = "body"
  /\ HasTok(toks, p) /\ TokAt(toks, p).kind = "lbr"
  /\ ~IsFeatureStart(toks, p + 1)
  /\ stack' = <<[Head(stack) EXCEPT !.save = p]>> \o Tail(stack)
  /\ pc' = "parseNode"
  /\ UNCHANGED <<src, toks, p, res, hostVars, renderVars>>

\* a bare symbol: children.push({label, features: [], children: []})
BodyLeaf ==
  /\ pc = "body"
  /\ HasTok(toks, p) /\ TokAt(toks, p).kind = "sym"
  /\ stack' = <<[Head(stack) EXCEPT
                  !.children = Append(@, LeafNode(TokAt(toks, p).value))]>>
              \o Tail(stack)
  /\ p' = p + 1
  /\ UNCHANGED <<src, toks, res, pc, hostVars, renderVars>>

\* ']': break; eat("rbr"); return {label, features, id, children}
BodyClose ==
  /\ pc = "body"
  /\ HasTok(toks, p) /\ TokAt(toks, p).kind = "rbr"
  /\ Return(FrameNode(Head(stack)), p + 1, Tail(stack))

ParseStep ==
  \/ ParseNodeEnter
  \/ BodyEnd
  \/ BodyFeature
  \/ BodyChild
  \/ BodyLeaf
  \/ BodyClose

(***************************************************************************)
(* layout.ts: layoutTree                                                   *)
(***************************************************************************)
NODE_W == 36
NODE_H == 22
H_GAP == 14
V_GAP == 28

Max(a, b) == IF a >= b THEN a ELSE b
Min(a, b) == IF a <= b THEN a ELSE b

\* features.map(f => `${f.sign}${f.name}`).join(",")
RECURSIVE JoinFeatures(_)
JoinFeatures(fs) ==
  IF fs = <<>> THEN <<>>
  ELSE <<Head(fs).sign>> \o Head(fs).name
       \o (IF Tail(fs) = <<>> THEN <<>> ELSE <<",">> \o JoinFeatures(Tail(fs)))

LabelText(n) ==
  n.label \o (IF n.features # <<>>
              THEN <<SPACE, LBR>> \o JoinFeatures(n.features) \o <<RBR>>
              ELSE <<>>)

measureLabel(n) == Max(NODE_W, 8 * Len(LabelText(n)) + 12)

\* a Positioned node; the parent back-reference, which nothing reads, is left out
RECURSIVE clone(_)
clone(n) ==
  [label |-> n.label, features |-> n.features, id |-> n.id,
   x |-> 0, y |-> 0, width |-> measureLabel(n), height |-> NODE_H,
   children |-> [i \in DOMAIN n.children |-> clone(n.children[i])]]

NullPos == clone(NullNode)

RECURSIVE SumW(_)
SumW(rs) == IF rs = <<>> THEN 0 ELSE Head(rs).w + SumW(Tail(rs))

\* the local offset of a node with children.  Every width is even (36, or
\* 8 * length + 12) and so is every sum of widths and gaps: the halves are exact.
LocalOffset(widthSum, width) == widthSum \div 2 - width \div 2

\* firstWalk(n): the width it returns and n with x set throughout its subtree
RECURSIVE firstWalk(_)
firstWalk(n) ==
  IF Len(n.children) = 0
  THEN [w |-> n.width, node |-> [n EXCEPT !.x = 0]]
  ELSE LET rs == [i \in DOMAIN n.children |-> firstWalk(n.children[i])]
           widthSum == SumW(rs) + H_GAP * (Len(rs) - 1)
       IN [w |-> Max(n.width, widthSum),
           node |-> [n EXCEPT !.children = [i \in DOMAIN rs |-> rs[i].node],
                              !.x = LocalOffset(widthSum, n.width)]]

\* the offset secondWalk hands to child c: ox + c.x - c.x + (idx === 0 ? 0 : 0)
ChildOffset(ox, c) == ox + c.x - c.x + 0

RECURSIVE secondWalk(_, _, _)
secondWalk(n, ox, oy) ==
  [n EXCEPT !.x = @ + ox,
            !.y = oy,
            !.children = [i \in DOMAIN n.children |->
               secondWalk(n.children[i], ChildOffset(ox, n.children[i]),
                          oy + n.height + V_GAP)]]

RECURSIVE MinX(_)
MinX(n) ==
  LET ms == [i \in DOMAIN n.children |-> MinX(n.children[i])]
      RECURSIVE Fold(_, _)
      Fold(i, m) == IF i > Len(ms) THEN m ELSE Fold(i + 1, Min(m, ms[i]))
  IN Fold(1, n.x)

RECURSIVE ShiftX(_, _)
ShiftX(n, dx) ==
  [n EXCEPT !.x = @ - dx,
            !.children = [i \in DOMAIN n.children |-> ShiftX(n.children[i], dx)]]

\* a normalization that puts the root, not the leftmost node, at 0
NormalizedByRoot(r) == ShiftX(r, r.x)

\* Normalize positions to start at 0
Normalized(r) == ShiftX(r, MinX(r))

(***************************************************************************)
(* render.ts: drawMovement                                                 *)
(***************************************************************************)
\* if (n.id): neither undefined nor the empty string
Truthy(id) == id # NoId /\ id[1] # <<>>

\* the nodes in the order walk visits them; a node is known by its path
\* from the root
RECURSIVE PreOrder(_, _)
PreOrder(n, path) ==
  LET RECURSIVE Kids(_)
      Kids(i) == IF i > Len(n.children) THEN <<>>
                 ELSE PreOrder(n.children[i], Append(path, i)) \o Kids(i + 1)
  IN <<[path |-> path, label |-> n.label, id |-> n.id, x |-> n.x, y |-> n.y,
        width |-> n.width, height |-> n.height]>> \o Kids(1)

\* map.get(k): the position of key k in the Map, 0 when absent
RECURSIVE MapIndex(_, _, _)
MapIndex(map, k, i) ==
  IF i > Len(map) THEN 0
  ELSE IF map[i].key = k THEN i
  ELSE MapIndex(map, k, i + 1)

\* a walk that keeps the first origin it meets
ClassifyFirstOrigin(rec, n) ==
  IF n.label = <<"t">>
  THEN [rec EXCEPT !.traces = Append(@, n)]
  ELSE IF rec.origin = <<>> THEN [rec EXCEPT !.origin = <<n>>] ELSE rec

\* isTrace ? rec.traces.push(n) : rec.origin = n
Classify(rec, n) ==
  IF n.label = <<"t">>
  THEN [rec EXCEPT !.traces = Append(@, n)]
  ELSE [rec EXCEPT !.origin = <<n>>]

\* the body of walk for one node: the Map keeps its keys in insertion order
Visit(map, n) ==
  IF Truthy(n.id)
  THEN LET k == n.id[1]
           i == MapIndex(map, k, 1)
       IN IF i = 0
          THEN Append(map, Classify([key |-> k, origin |-> <<>>, traces |-> <<>>], n))
          ELSE [map EXCEPT ![i] = Classify(@, n)]
  ELSE map

RECURSIVE WalkAll(_, _)
WalkAll(map, ns) ==
  IF ns = <<>> THEN map ELSE WalkAll(Visit(map, Head(ns)), Tail(ns))

\* the path from origin to t: M x1 y1 C c1x c1y, c2x c2y, x2 y2
ArcPath(origin, t) ==
  LET x1 == origin.x + origin.width \div 2
      y1 == origin.y
      x2 == t.x + t.width \div 2
      y2 == t.y + t.height
  IN [origin |-> origin.path, trace |-> t.path,
      d |-> <<x1, y1, x1, y1 - 40, x2, y2 + 40, x2, y2>>]

\* map.forEach(({origin, traces}) => { if (!origin) return; traces.forEach(...) })
RECURSIVE GroupArcs(_)
GroupArcs(map) ==
  IF map = <<>> THEN <<>>
  ELSE LET g == Head(map) IN
       (IF g.origin = <<>> THEN <<>>
        ELSE [i \in DOMAIN g.traces |-> ArcPath(g.origin[1], g.traces[i])])
       \o GroupArcs(Tail(map))

drawMovement(root) == GroupArcs(WalkAll(<<>>, PreOrder(root, <<>>)))

(***************************************************************************)
(* renderTree(ast), step by step: layoutTree's clone, firstWalk,           *)
(* secondWalk and normalization, then drawMovement.                        *)
(***************************************************************************)
Clone ==
  /\ pc = "ret"
  /\ res.kind = "ok"
  /\ pos' = clone(res.node)
  /\ arcs' = <<>>
  /\ pc' = "firstWalk"
  /\ UNCHANGED <<hostVars, parseVars>>

FirstWalk ==
  /\ pc = "firstWalk"
  /\ pos' = firstWalk(pos).node
  /\ pc' = "secondWalk"
  /\ UNCHANGED <<hostVars, parseVars, arcs>>

SecondWalk ==
  /\ pc = "secondWalk"
  /\ pos' = secondWalk(pos, 0, 0)
  /\ pc' = "normalize"
  /\ UNCHANGED <<hostVars, parseVars, arcs>>

Normalize ==
  /\ pc = "normalize"
  /\ pos' = Normalized(pos)
  /\ pc' = "drawMovement"
  /\ UNCHANGED <<hostVars, parseVars, arcs>>

DrawMovement ==
  /\ pc = "drawMovement"
  /\ arcs' = drawMovement(pos)
  /\ pc' = "rendered"
  /\ UNCHANGED <<hostVars, parseVars, pos>>

RenderStep ==
  \/ Clone
  \/ FirstWalk
  \/ SecondWalk
  \/ Normalize
  \/ DrawMovement

(***************************************************************************)
(* main.ts: the DOM the processors work on.  An element's children are a   *)
(* sequence of nodes; a node is attached while it is in that sequence.     *)
(***************************************************************************)
DomNode(i, t, v) == [id |-> i, type |-> t, value |-> v]

RECURSIVE DomIndex(_, _, _)
DomIndex(d, id, i) ==
  IF i > Len(d) THEN 0
  ELSE IF d[i].id = id THEN i
  ELSE DomIndex(d, id, i + 1)

\* node.parentNode is the element, not null
Attached(d, id) == DomIndex(d, id, 1) # 0

\* parent.insertBefore(n, ref)
InsertBefore(d, n, ref) ==
  LET i == DomIndex(d, ref, 1) IN
  SubSeq(d, 1, i - 1) \o <<n>> \o SubSeq(d, i, Len(d))

\* parent.removeChild(ref)
RemoveChild(d, ref) ==
  LET i == DomIndex(d, ref, 1) IN
  SubSeq(d, 1, i - 1) \o SubSeq(d, i + 1, Len(d))

RECURSIVE MaxId(_)
MaxId(ns) == IF ns = <<>> THEN 0 ELSE Max(Head(ns).id, MaxId(Tail(ns)))

\* the identity of the next node document.createElement / createTextNode makes
FreshId(d, rs) == Max(MaxId(d), MaxId([i \in DOMAIN rs |-> rs[i].node])) + 1

(***************************************************************************)
(* main.ts: /\{\{tree:\s*([\s\S]+?)\s*\}\}/g and the string methods        *)
(***************************************************************************)
TAG == <<"{", "{", "t", "r", "e", "e", ":">>
CLOSE == <<"}", "}">>

StartsAt(s, i, sub) ==
  i + Len(sub) - 1 <= Len(s) /\ SubSeq(s, i, i + Len(sub) - 1) = sub

\* s.indexOf(sub), 1-based; 0 when sub does not occur
RECURSIVE IndexOfSub(_, _, _)
IndexOfSub(s, sub, i) ==
  IF i + Len(sub) - 1 > Len(s) THEN 0
  ELSE IF StartsAt(s, i, sub) THEN i
  ELSE IndexOfSub(s, sub, i + 1)

\* the length of the run of whitespace at i
RECURSIVE WsRun(_, _)
WsRun(s, i) == IF i <= Len(s) /\ IsSpace(s[i]) THEN 1 + WsRun(s, i + 1) ELSE 0

NoMatch == [ok |-> FALSE, full |-> <<>>, src |-> <<>>, end |-> 0]

\* \s*\}\} at j: the index after the match, 0 when it fails
CloseAt(s, j) ==
  LET k == j + WsRun(s, j) IN IF StartsAt(s, k, CLOSE) THEN k + 2 ELSE 0

\* ([\s\S]+?) from start, trying the lengths c, c + 1, ... of a match at i
RECURSIVE Lazy(_, _, _, _)
Lazy(s, i, start, c) ==
  IF start + c - 1 > Len(s) THEN NoMatch
  ELSE LET e == CloseAt(s, start + c) IN
       IF e > 0
       THEN [ok |-> TRUE, full |-> SubSeq(s, i, e - 1),
             src |-> SubSeq(s, start, start + c - 1), end |-> e]
       ELSE Lazy(s, i, start, c + 1)

\* the greedy \s* after the tag, giving back one character at a time
RECURSIVE Greedy(_, _, _)
Greedy(s, i, w) ==
  LET r == Lazy(s, i, i + Len(TAG) + w, 1) IN
  IF r.ok \/ w = 0 THEN r ELSE Greedy(s, i, w - 1)

MatchAt(s, i) ==
  IF StartsAt(s, i, TAG) THEN Greedy(s, i, WsRun(s, i + Len(TAG))) ELSE NoMatch

\* pat.exec(text) with pat.lastIndex = i (1-based): the first match at or after i
RECURSIVE Exec(_, _)
Exec(s, i) ==
  IF i > Len(s) THEN NoMatch
  ELSE LET r == MatchAt(s, i) IN IF r.ok THEN r ELSE Exec(s, i + 1)

\* while ((m = pat.exec(text))) toReplace.push({node, match: m})
RECURSIVE ExecAll(_, _, _)
ExecAll(node, i, acc) ==
  LET m == Exec(node.value, i) IN
  IF m.ok
  THEN ExecAll(node, m.end, Append(acc, [node |-> node, full |-> m.full, src |-> m.src]))
  ELSE acc

\* while (walker.nextNode()): every text node under el, in document order
RECURSIVE WalkText(_)
WalkText(d) ==
  IF d = <<>> THEN <<>>
  ELSE (IF Head(d).type = "text" THEN ExecAll(Head(d), 1, <<>>) ELSE <<>>)
       \o WalkText(Tail(d))

\* (node.nodeValue || "").split(full)[0]
BeforeOf(v, full) ==
  LET i == IndexOfSub(v, full, 1) IN IF i = 0 THEN v ELSE SubSeq(v, 1, i - 1)

\* (node.nodeValue || "").slice(indexOf(full) + full.length)
AfterOf(v, full) ==
  LET i == IndexOfSub(v, full, 1) IN SubSeq(v, (i - 1) + Len(full) + 1, Len(v))

(***************************************************************************)
(* The inputs.                                                             *)
(***************************************************************************)
\* fragments of bracket notation an author writes in a `tree` block
Pieces ==
  { <<LBR>>, <<LBR, "a">>, <<RBR>>, <<SPACE>>, <<PLUS>>, <<MINUS, "b">>,
    <<QUOTE, PLUS, "b", QUOTE>>, <<"t", HASH, "w">>, <<QUOTE>> }

\* fragments of a paragraph: plain text, an occurrence whose source parses
\* and one whose source does not
GoodOccurrence == TAG \o <<SPACE, LBR, "a", LBR, PLUS, "b", RBR, LBR, "c", RBR, SPACE, "d", RBR>> \o CLOSE
BadOccurrence == TAG \o <<LBR, "a", SPACE>> \o CLOSE
DocPieces == { <<"x">>, GoodOccurrence, BadOccurrence }

\* src.trim()
RECURSIVE TrimLeft(_)
TrimLeft(s) == IF s # <<>> /\ IsSpace(Head(s)) THEN TrimLeft(Tail(s)) ELSE s

RECURSIVE TrimRight(_)
TrimRight(s) ==
  IF s # <<>> /\ IsSpace(s[Len(s)]) THEN TrimRight(SubSeq(s, 1, Len(s) - 1)) ELSE s

Trim(s) == TrimRight(TrimLeft(s))

\* the Node trees of exactly n nodes whose nodes are of the kinds K
RECURSIVE TreesOf(_, _)
RECURSIVE ForestsOf(_, _)
TreesOf(n, K) ==
  {Node(k.label, k.features, k.id, f) : k \in K, f \in ForestsOf(n - 1, K)}

ForestsOf(m, K) ==
  IF m = 0 THEN {<<>>}
  ELSE UNION {{<<t>> \o f : t \in TreesOf(j, K), f \in ForestsOf(m - j, K)} : j \in 1..m}

TreesUpTo(n, K) == UNION {TreesOf(j, K) : j \in 1..n}

\* nodes whose boxes differ in width
LayoutKinds ==
  {[label |-> l, features |-> fs, id |-> NoId] :
     l \in {<<"a">>, <<"a", "b", "c", "d", "e">>},
     fs \in {<<>>, <<Feature(PLUS, <<"F">>)>>}}

\* traces and other nodes, with no id, the empty id and two ids
MoveKinds ==
  {[label |-> l, features |-> <<>>, id |-> i] :
     l \in {<<"t">>, <<"a">>},
     i \in {NoId, SomeId(<<>>), SomeId(<<"w">>), SomeId(<<"v">>)}}

(***************************************************************************)
(* The `tree` code block processor.                                        *)
(***************************************************************************)
Idle ==
  /\ src = <<>>
  /\ toks = <<>>
  /\ p = 0
  /\ stack = <<>>
  /\ res = NoRes
  /\ pos = NullPos
  /\ arcs = <<>>
  /\ toReplace = <<>>
  /\ ri = 1
  /\ raised = <<>>
  /\ typed = 0
  /\ text = <<>>

Init ==
  /\ mode = "block"
  /\ dom = <<>>
  /\ pc = "edit"
  /\ Idle

\* the author writes one more fragment of the block
Type ==
  /\ pc = "edit"
  /\ typed < MaxPieces
  /\ \E x \in Pieces : text' = text \o x
  /\ typed' = typed + 1
  /\ UNCHANGED <<mode, dom, toReplace, ri, raised, parseVars, renderVars, pc>>

\* const ast = parseTree(src.trim())
BlockParse ==
  /\ pc = "edit"
  /\ CallParseTree(Trim(text))
  /\ UNCHANGED <<hostVars, renderVars>>

\* el.appendChild(svg)
BlockAppend ==
  /\ pc = "rendered"
  /\ dom' = Append(dom, DomNode(FreshId(dom, toReplace), "svg", <<"ling-tree-svg">>))
  /\ pc' = "done"
  /\ UNCHANGED <<mode, text, typed, toReplace, ri, raised, parseVars, renderVars>>

\* catch (e): pre.setText(`Tree parse error: ${e.message}`)
BlockError ==
  /\ pc = "ret"
  /\ res.kind = "err"
  /\ dom' = Append(dom, DomNode(FreshId(dom, toReplace), "pre",
                                <<"Tree parse error: ">> \o res.msg))
  /\ pc' = "done"
  /\ UNCHANGED <<mode, text, typed, toReplace, ri, raised, parseVars, renderVars>>

Next ==
  \/ Type
  \/ BlockParse
  \/ ParseStep
  \/ RenderStep
  \/ BlockAppend
  \/ BlockError

Spec == Init /\ [][Next]_vars /\ WF_vars(Next)

(***************************************************************************)
(* renderTree alone, on the trees of a bounded size.                       *)
(***************************************************************************)
InitRender(T) ==
  /\ mode = "render"
  /\ dom = <<>>
  /\ pc = "ret"
  /\ src = <<>>
  /\ toks = <<>>
  /\ p = 0
  /\ stack = <<>>
  /\ res \in {Ok(t) : t \in T}
  /\ pos = NullPos
  /\ arcs = <<>>
  /\ toReplace = <<>>
  /\ ri = 1
  /\ raised = <<>>
  /\ typed = 0
  /\ text = <<>>

InitLayout == InitRender(TreesUpTo(MaxLayoutNodes, LayoutKinds))

SpecLayout == InitLayout /\ [][RenderStep]_vars /\ WF_vars(RenderStep)

InitMove == InitRender(TreesUpTo(MaxMoveNodes, MoveKinds))

SpecMove == InitMove /\ [][RenderStep]_vars /\ WF_vars(RenderStep)

(***************************************************************************)
(* The inline post-processor: every {{tree: ...}} of every text node of    *)
(* el is replaced by the text before it, the diagram or the error span,    *)
(* and the text after it.                                                  *)
(***************************************************************************)
InitInline ==
  /\ mode = "inline"
  /\ dom = <<DomNode(1, "text", <<>>)>>
  /\ pc = "edit"
  /\ Idle

\* the author writes one more fragment of the paragraph, or a line break,
\* after which a new text node begins
TypeDoc ==
  /\ pc = "edit"
  /\ typed < MaxDocPieces
  /\ \/ \E x \in DocPieces : dom' = [dom EXCEPT ![Len(dom)].value = @ \o x]
     \/ dom' = dom \o <<DomNode(Len(dom) + 1, "br", <<>>),
                        DomNode(Len(dom) + 2, "text", <<>>)>>
  /\ typed' = typed + 1
  /\ UNCHANGED <<mode, text, toReplace, ri, raised, parseVars, renderVars, pc>>

\* the TreeWalker loop, then toReplace.forEach begins
Collect ==
  /\ pc = "edit"
  /\ toReplace' = WalkText(dom)
  /\ ri' = 1
  /\ pc' = IF WalkText(dom) = <<>> THEN "done" ELSE "replace"
  /\ UNCHANGED <<mode, text, typed, dom, raised, parseVars, renderVars>>

\* a TypeError leaves forEach and the processor
Raise ==
  /\ raised' = <<"TypeError">>
  /\ pc' = "done"

\* forEach's callback up to the call of parseTree: parent is null once node
\* was removed, and parent.insertBefore then throws
ReplaceBegin ==
  /\ pc = "replace"
  /\ LET e == toReplace[ri]
         before == BeforeOf(e.node.value, e.full)
     IN IF before # <<>> /\ ~Attached(dom, e.node.id)
        THEN /\ Raise
             /\ UNCHANGED <<mode, text, typed, dom, toReplace, ri, parseVars, renderVars>>
        ELSE /\ dom' = IF before # <<>>
                       THEN InsertBefore(dom, DomNode(FreshId(dom, toReplace), "text", before),
                                         e.node.id)
                       ELSE dom
             /\ CallParseTree(e.src)
             /\ UNCHANGED <<mode, text, typed, toReplace, ri, raised, renderVars>>

\* the rest of forEach's callback once el (the svg or the span) is made:
\* insertBefore(el), insertBefore(after), removeChild(node)
Finish(el) ==
  LET e == toReplace[ri]
      after == AfterOf(e.node.value, e.full)
      d1 == InsertBefore(dom, DomNode(FreshId(dom, toReplace), el.type, el.value), e.node.id)
      d2 == IF after # <<>>
            THEN InsertBefore(d1, DomNode(FreshId(d1, toReplace), "text", after), e.node.id)
            ELSE d1
  IN IF ~Attached(dom, e.node.id)
     THEN /\ Raise
          /\ UNCHANGED <<mode, text, typed, dom, toReplace, ri, parseVars, renderVars>>
     ELSE /\ dom' = RemoveChild(d2, e.node.id)
          /\ ri' = ri + 1
          /\ pc' = IF ri + 1 > Len(toReplace) THEN "done" ELSE "replace"
          /\ UNCHANGED <<mode, text, typed, toReplace, raised, parseVars, renderVars>>

\* svg.classList.add("ling-tree-inline"); parent.insertBefore(svg, node): a
\* TypeError here is caught, and the catch block's insertBefore throws it again
InlineInsert ==
  /\ pc = "rendered"
  /\ Finish([type |-> "svg", value |-> <<"ling-tree-svg", "ling-tree-inline">>])

\* catch (e): the span "[tree parse error]"
InlineCatch ==
  /\ pc = "ret"
  /\ res.kind = "err"
  /\ Finish([type |-> "span", value |-> <<"[tree parse error]">>])

NextInline ==
  \/ TypeDoc
  \/ Collect
  \/ ReplaceBegin
  \/ ParseStep
  \/ RenderStep
  \/ InlineInsert
  \/ InlineCatch

SpecInline == InitInline /\ [][NextInline]_vars /\ WF_vars(NextInline)

(***************************************************************************)
(* Properties.                                                             *)
(***************************************************************************)
\* layoutTree has returned
LaidOut == pc \in {"drawMovement", "rendered"}

\* parseTree has returned or thrown
Parsed == res.kind # "none"

RECURSIVE SiblingsApart(_)
SiblingsApart(n) ==
  /\ \A i \in 1..(Len(n.children) - 1) :
       n.children[i].x + n.children[i].width <= n.children[i + 1].x
  /\ \A i \in DOMAIN n.children : SiblingsApart(n.children[i])

\* C1: in every laid-out tree, each child's box ends at or before the x of
\* the sibling to its right: c1.x + c1.width <= c2.x.
C1_SiblingsDoNotOverlap == LaidOut => SiblingsApart(pos)

\* the node a body leaf would be if its text were split at '#' like a label
SplitLeaf(v) ==
  LET h == parseFeaturesPart(v) IN Node(h.base, <<>>, h.id, <<>>)

\* the last token eaten was a bare symbol of the body of the innermost node
\* (a label follows '[' directly; a feature's symbol is eaten with its ']')
LeafJustEaten ==
  /\ pc = "body"
  /\ p >= 2 /\ p <= Len(toks)
  /\ toks[p].kind = "sym"
  /\ toks[p - 1].kind # "lbr"

\* C2: a bare symbol in a body becomes a childless node whose label is the
\* text before the first '#' and whose id is the text after it.
C2_BodyLeafSplitAtHash ==
  LeafJustEaten =>
    LET cs == Head(stack).children IN cs[Len(cs)] = SplitLeaf(toks[p].value)

\* the nodes of the positioned tree in pre-order, and their places in it
Visited == PreOrder(pos, <<>>)
Carrying(k) == {i \in DOMAIN Visited : Visited[i].id = SomeId(k)}
OriginsOf(k) == {i \in Carrying(k) : Visited[i].label # <<"t">>}
TracesOf(k) == {i \in Carrying(k) : Visited[i].label = <<"t">>}
LastOf(S) == CHOOSE i \in S : \A j \in S : j <= i
AllIds == {Visited[i].id[1] : i \in {j \in DOMAIN Visited : Visited[j].id # NoId}}
PlaceOf(path) == CHOOSE i \in DOMAIN Visited : Visited[i].path = path

\* the arcs the claim describes for the identifiers K, as (origin, trace) places
ArcsFor(K) ==
  UNION {{<<LastOf(OriginsOf(k)), t>> : t \in TracesOf(k)} :
           k \in {j \in K : OriginsOf(j) # {}}}

\* the arcs emitted are exactly those for the identifiers K: each once, from
\* the top centre of the origin to the bottom centre of the trace, the arcs
\* of one origin in pre-order of their traces
ArcsAre(K) ==
  /\ {<<PlaceOf(arcs[i].origin), PlaceOf(arcs[i].trace)>> : i \in DOMAIN arcs} = ArcsFor(K)
  /\ Len(arcs) = Cardinality(ArcsFor(K))
  /\ \A i \in DOMAIN arcs :
       LET o == Visited[PlaceOf(arcs[i].origin)]
           t == Visited[PlaceOf(arcs[i].trace)]
       IN /\ arcs[i].d[1] = o.x + o.width \div 2 /\ arcs[i].d[2] = o.y
          /\ arcs[i].d[7] = t.x + t.width \div 2 /\ arcs[i].d[8] = t.y + t.height
  /\ \A i, j \in DOMAIN arcs :
       i < j /\ arcs[i].origin = arcs[j].origin =>
         PlaceOf(arcs[i].trace) < PlaceOf(arcs[j].trace)

\* C3 as stated: for each identifier carried by a node other than a trace,
\* one arc to each trace with that identifier from the last such node in
\* pre-order, and no other arc.
C3_ArcsForEveryIdentifier == pc = "rendered" => ArcsAre(AllIds)

\* C3, amended: the same for each non-empty identifier; nodes whose
\* identifier is the empty string take part in no arc.
C3_ArcsForNonEmptyIdentifiers == pc = "rendered" => ArcsAre(AllIds \ {<<>>})

\* an identifier with two origins and a trace: the arc starts at the later one
C3_Witness ==
  /\ pc = "rendered"
  /\ arcs # <<>>
  /\ \E k \in AllIds \ {<<>>} : Cardinality(OriginsOf(k)) >= 2 /\ TracesOf(k) # {}

\* the open brackets of ts that no close bracket matches
RECURSIVE OpenDepth(_, _)
OpenDepth(ts, d) ==
  IF ts = <<>> THEN d
  ELSE IF Head(ts).kind = "lbr" THEN OpenDepth(Tail(ts), d + 1)
  ELSE IF Head(ts).kind = "rbr" /\ d > 0 THEN OpenDepth(Tail(ts), d - 1)
  ELSE OpenDepth(Tail(ts), d)

Unmatched == OpenDepth(toks, 0) > 0

\* C4 as stated: a source with an open bracket that is never closed fails
\* with "Unclosed '['".
C4_UnmatchedIsUnclosedBracket ==
  Parsed /\ Unmatched => res = Err(UnclosedBracket)

\* the tokens end directly after an open bracket
EndsAfterOpen == toks[Len(toks)].kind = "lbr"

\* the tokens end with '[' and a +/- symbol in a body: a feature group
\* without its close bracket
EndsInFeature ==
  /\ Len(toks) >= 3
  /\ toks[Len(toks) - 1].kind = "lbr"
  /\ toks[Len(toks)].kind = "sym" /\ StartsWithSign(toks[Len(toks)].value)

\* C4, amended: a source with an open bracket that is never closed yields no
\* tree; when the parser runs out of tokens the error is "Unexpected end of
\* input" if the tokens end directly after an open bracket or after the
\* signed symbol of a feature group, and "Unclosed '['" otherwise.
C4_UnmatchedFails ==
  Parsed /\ Unmatched =>
    /\ res.kind = "err"
    /\ res.msg \in {UnclosedBracket, UnexpectedEndOfInput} =>
         (res.msg = UnexpectedEndOfInput <=> EndsAfterOpen \/ EndsInFeature)

\* the tokens run out in the body of a node one of whose children was closed
C4_Witness ==
  /\ Parsed /\ Unmatched
  /\ res = Err(UnclosedBracket)
  /\ \E i \in DOMAIN toks : toks[i].kind = "rbr"

\* parseNode is about to return the top-level node
RootCompletes ==
  \/ pc = "parseNode" /\ stack = <<>> /\ HasTok(toks, p) /\ TokAt(toks, p).kind = "sym"
  \/ pc = "body" /\ Len(stack) = 1 /\ HasTok(toks, p) /\ TokAt(toks, p).kind = "rbr"

\* C5: parseTree returns a node only when the top-level node has consumed
\* every token; when the top-level node is complete and a token remains it
\* fails with "Extra input after tree".
C5_WholeInputIsOneNode ==
  [][/\ RootCompletes =>
          IF p' < Len(toks) THEN res' = Err(ExtraInput)
          ELSE res'.kind = "ok" /\ p' = Len(toks)
     /\ res.kind = "none" /\ res'.kind = "ok" =>
          RootCompletes /\ p' = Len(toks') /\ stack' = <<>>]_vars

\* a bracketed top-level node was completed with a token left over
C5_Witness == pc = "ret" /\ res = Err(ExtraInput) /\ p >= 3

\* for each token of tokenize(s), whether it was written in quotes
RECURSIVE QuotedLoop(_, _, _)
QuotedLoop(s, i, acc) ==
  IF i > Len(s) THEN acc
  ELSE IF IsSpace(s[i]) THEN QuotedLoop(s, i + 1, acc)
  ELSE IF s[i] = LBR \/ s[i] = RBR THEN QuotedLoop(s, i + 1, Append(acc, FALSE))
  ELSE IF s[i] = QUOTE
    THEN QuotedLoop(s, ScanQuote(s, i + 1) + 1, Append(acc, TRUE))
  ELSE QuotedLoop(s, ScanSym(s, i), Append(acc, FALSE))

\* the token at cursor q is a symbol written without quotes that starts
\* with '+' or '-'
SignedSymbolAt(q) ==
  /\ HasTok(toks, q)
  /\ TokAt(toks, q).kind = "sym"
  /\ ~QuotedLoop(src, 1, <<>>)[q + 1]
  /\ StartsWithSign(TokAt(toks, q).value)

\* C6: at an open bracket in a body the parser commits to a feature group
\* exactly when the next token is an unquoted symbol starting with '+' or
\* '-': it appends the feature and requires a close bracket next, else
\* fails with "Expected rbr"; otherwise it restores the cursor and parses
\* a child node.
C6_FeatureGroupIffSignedSymbol ==
  [][pc = "body" /\ HasTok(toks, p) /\ TokAt(toks, p).kind = "lbr" =>
       IF SignedSymbolAt(p + 1)
       THEN IF HasTok(toks, p + 2) /\ TokAt(toks, p + 2).kind = "rbr"
            THEN /\ Head(stack').features =
                      Append(Head(stack).features, FeatureOf(TokAt(toks, p + 1).value))
                 /\ Head(stack').children = Head(stack).children
                 /\ p' = p + 3
            ELSE /\ res'.kind = "err"
                 /\ HasTok(toks, p + 2) =>
                      res'.msg = Expected("rbr", TokAt(toks, p + 2).kind)
       ELSE p' = p /\ pc' = "parseNode"]_vars

RECURSIVE FeaturesOk(_)
FeaturesOk(n) ==
  /\ \A i \in DOMAIN n.features :
       n.features[i].sign \in {PLUS, MINUS} /\ n.features[i].name # <<>>
  /\ \A i \in DOMAIN n.children : FeaturesOk(n.children[i])

\* C8: every feature of every node of a parsed tree has sign + or - and a
\* non-empty name.
C8_FeatureNamesNonEmpty == res.kind = "ok" => FeaturesOk(res.node)

RECURSIVE Xs(_)
Xs(n) == {n.x} \cup UNION {Xs(n.children[i]) : i \in DOMAIN n.children}

\* C7: after layoutTree no node has a negative x and some node has x = 0.
C7_LeftmostAtZero == LaidOut => (\A x \in Xs(pos) : x >= 0) /\ 0 \in Xs(pos)

\* a tree whose sizing pass gave some node a negative local offset
C7_Witness ==
  /\ pc = "rendered"
  /\ \E x \in Xs(firstWalk(clone(res.node)).node) : x < 0

\* the number of '[' tokens
RECURSIVE LbrCount(_)
LbrCount(ts) ==
  IF ts = <<>> THEN 0
  ELSE (IF Head(ts).kind = "lbr" THEN 1 ELSE 0) + LbrCount(Tail(ts))

\* the parseNode calls that are active
Depth == Len(stack) + (IF pc = "parseNode" THEN 1 ELSE 0)

InParseNode == pc \in {"parseNode", "body"}

\* a measure of what parseNode has left to do
Rank ==
  IF pc = "parseNode" THEN 2 * (Len(toks) - p) + 2
  ELSE IF pc = "body" THEN 2 * (Len(toks) - p) + 3
  ELSE 0

\* an iteration of a body loop that goes round again ends with the cursor
\* past where it began: after a feature group or a leaf, and after the
\* child that the rewound cursor was parsed into (save is where it began)
LoopAdvances ==
  /\ pc = "body" /\ pc' = "body" /\ Len(stack') = Len(stack) => p' > p
  /\ pc = "body" /\ pc' = "body" /\ Len(stack') = Len(stack) - 1 =>
       p' > Head(stack').save

\* C10: parseTree terminates: the cursor is never more than one past the
\* tokens, the active parseNode calls are never more than the open-bracket
\* tokens (one call for an input with none), every iteration of a body
\* loop exits the loop or advances the cursor, every step of parseNode
\* lowers a natural-number measure that is 0 only once parseTree has
\* returned or thrown, and parseNode always has a step to take.
C10_ParseTerminates ==
  /\ [](p <= Len(toks) + 1)
  /\ [](Depth <= Max(1, LbrCount(toks)))
  /\ [](InParseNode => p <= Len(toks) /\ Rank > 0)
  /\ [][LoopAdvances /\ (InParseNode => Rank' < Rank)]_vars
  /\ [](InParseNode => ENABLED ParseStep)

\* a parse that rewound the cursor twice, one child inside the other, and ended
C10_Witness ==
  /\ Parsed
  /\ \E i \in 1..(Len(toks) - 4) :
       /\ toks[i].kind = "sym"
       /\ toks[i + 1].kind = "lbr" /\ toks[i + 2].kind = "sym"
       /\ toks[i + 3].kind = "lbr" /\ toks[i + 4].kind = "sym"
  /\ p >= Len(toks)

\* what a reader sees of a text: nothing if it is empty
TextItem(c) == IF c = <<>> THEN <<>> ELSE <<[type |-> "text", value |-> c]>>

ElementItem == [type |-> "element", value |-> <<>>]

\* the text v from index i on, each occurrence replaced by one element
RECURSIVE Replaced(_, _)
Replaced(v, i) ==
  LET m == Exec(v, i) IN
  IF m.ok
  THEN TextItem(SubSeq(v, i, m.end - Len(m.full) - 1)) \o <<ElementItem>>
       \o Replaced(v, m.end)
  ELSE TextItem(SubSeq(v, i, Len(v)))

\* the nodes the paragraph had when the post-processor was called: they
\* carry the ids 1..n, a line break and a text node for every break
ParagraphSize == 1 + 2 * Cardinality({i \in DOMAIN dom : dom[i].type = "br"})

ParagraphNode(i) ==
  IF Attached(dom, i) THEN dom[DomIndex(dom, i, 1)]
  ELSE toReplace[CHOOSE j \in DOMAIN toReplace : toReplace[j].node.id = i].node

RECURSIVE ExpectedFrom(_)
ExpectedFrom(i) ==
  IF i > ParagraphSize THEN <<>>
  ELSE (IF ParagraphNode(i).type = "text" THEN Replaced(ParagraphNode(i).value, 1)
        ELSE <<[type |-> "br", value |-> <<>>]>>)
       \o ExpectedFrom(i + 1)

RECURSIVE Shown(_)
Shown(d) ==
  IF d = <<>> THEN <<>>
  ELSE (CASE Head(d).type = "text" -> TextItem(Head(d).value)
          [] Head(d).type = "br" -> <<[type |-> "br", value |-> <<>>]>>
          [] OTHER -> <<ElementItem>>)
       \o Shown(Tail(d))

\* C9: whatever the number of occurrences in a text node, the inline
\* post-processor completes without raising, each occurrence is replaced
\* by exactly one element (the SVG or the error span) and the text around
\* the occurrences is kept once, in its order.
C9_InlineReplacesEveryOccurrence ==
  pc = "done" => raised = <<>> /\ Shown(dom) = ExpectedFrom(1)

====
